---------------------------- MODULE Spec2Model ----------------------------
(***************************************************************************)
(* In-memory search engine (src/app.py, src/main.py): documents with       *)
(* metadata, one inverted index per dataset, conjunctive multi-word        *)
(* search, optional ordering of the results by a metadata key.             *)
(*                                                                         *)
(* Strings whose characters matter (contents, queries, metadata values)    *)
(* are sequences of one-character strings; dataset names and metadata keys *)
(* are only compared and tested for emptiness and stay TLA+ strings.       *)
(***************************************************************************)
EXTENDS Integers, Sequences, FiniteSets, TLC

VARIABLES
    datasets,          \* SearchEngine.datasets: name -> Dataset
    next_doc_id,       \* SearchEngine.next_doc_id
    call,              \* the last call made on the engine and its arguments
    error,             \* the exception the last call raised, or "none"
    matching_doc_ids,  \* search: the id set InvertedIndex.search returned
    materialized,      \* search: the result list before the optional sort
    results,           \* search: the list returned
    inserted,          \* history: number of insert_document calls that succeeded
    originals,         \* history: doc id -> the content as the caller passed it
    pc,                \* concurrent runs: each request thread's position
    frame,             \* concurrent runs: each request thread's local variables
    orphans,           \* concurrent runs: Dataset objects no longer registered
    instances          \* SingletonMeta._instances: class -> the instance made

vars == <<datasets, next_doc_id, call, error, matching_doc_ids, materialized,
          results, inserted, originals, pc, frame, orphans, instances>>

engine == <<datasets, next_doc_id>>
threads == <<pc, frame, orphans>>
sequential == <<call, error, matching_doc_ids, materialized, results, originals>>

(***************************************************************************)
(* Bounds of the model.                                                    *)
(***************************************************************************)
MaxDocs == 3        \* successful inserts in a sequential run
MaxConcDocs == 2    \* insert requests in a concurrent run

(***************************************************************************)
(* Characters and strings.                                                 *)
(***************************************************************************)
\* Unicode code points of the characters used, for str comparison.
Ord(c) ==
    CASE c = "\t" -> 9
      [] c = " "  -> 32
      [] c = "A"  -> 65
      [] c = "B"  -> 66
      [] c = "C"  -> 67
      [] c = "a"  -> 97
      [] c = "b"  -> 98
      [] c = "c"  -> 99
      [] c = "d"  -> 100

\* str.lower() on one character.
LowerChar(c) ==
    CASE c = "A" -> "a"
      [] c = "B" -> "b"
      [] c = "C" -> "c"
      [] OTHER   -> c

\* str.lower()
Lower(s) == [i \in 1..Len(s) |-> LowerChar(s[i])]

\* str.isspace() on one character.
IsSpace(c) == c \in {" ", "\t"}

\* str.split() without arguments: the maximal runs of non-whitespace
\* characters, in order; leading, trailing and repeated whitespace give no
\* empty word.
RECURSIVE SplitFrom(_, _, _, _)
SplitFrom(s, i, word, words) ==
    IF i > Len(s)
    THEN IF word = <<>> THEN words ELSE Append(words, word)
    ELSE IF IsSpace(s[i])
         THEN SplitFrom(s, i + 1, <<>>,
                        IF word = <<>> THEN words ELSE Append(words, word))
         ELSE SplitFrom(s, i + 1, Append(word, s[i]), words)

Split(s) == SplitFrom(s, 1, <<>>, <<>>)

\* s < t for Python str: lexicographic on code points, a proper prefix first.
RECURSIVE StrLessFrom(_, _, _)
StrLessFrom(s, t, i) ==
    IF i > Len(t) THEN FALSE
    ELSE IF i > Len(s) THEN TRUE
    ELSE IF Ord(s[i]) < Ord(t[i]) THEN TRUE
    ELSE IF Ord(s[i]) > Ord(t[i]) THEN FALSE
    ELSE StrLessFrom(s, t, i + 1)

StrLess(s, t) == StrLessFrom(s, t, 1)

(***************************************************************************)
(* Document                                                                *)
(***************************************************************************)
\* Document.__init__: the content is stored lowercased.
Document(doc_id, content, metaData) ==
    [doc_id |-> doc_id, content |-> Lower(content), meta_data |-> metaData]

\* Document.get_key_value: dict.get(key, "").
get_key_value(document, key) ==
    IF key \in DOMAIN document.meta_data
    THEN document.meta_data[key]
    ELSE <<>>

(***************************************************************************)
(* InvertedIndex: index is a dict word -> set of doc ids.                  *)
(***************************************************************************)
EmptyDict == [k \in {} |-> {}]

\* dict.get(word, set())
IndexGet(index, word) ==
    IF word \in DOMAIN index THEN index[word] ELSE {}

\* An indexing round that replaces the word's posting set by the new id.
IndexAddWordReplace(index, doc_id, word) ==
    IF word \in DOMAIN index
    THEN [index EXCEPT ![word] = {doc_id}]
    ELSE index @@ (word :> {doc_id})

\* One round of the loop of InvertedIndex.addDocument.
IndexAddWord(index, doc_id, word) ==
    LET created == IF word \in DOMAIN index
                   THEN index
                   ELSE index @@ (word :> {})
    IN  [created EXCEPT ![word] = @ \cup {doc_id}]

RECURSIVE IndexAddWords(_, _, _)
IndexAddWords(index, doc_id, words) ==
    IF words = <<>>
    THEN index
    ELSE IndexAddWords(IndexAddWord(index, doc_id, Head(words)),
                       doc_id, Tail(words))

\* An indexing that enters a document only under the words that are new.
RECURSIVE IndexAddNewWords(_, _, _)
IndexAddNewWords(index, doc_id, words) ==
    IF words = <<>>
    THEN index
    ELSE IndexAddNewWords(IF Head(words) \in DOMAIN index
                          THEN index
                          ELSE index @@ (Head(words) :> {doc_id}),
                          doc_id, Tail(words))

IndexAddDocumentNewOnly(index, doc_id, content) ==
    IndexAddNewWords(index, doc_id, Split(Lower(content)))

\* InvertedIndex.addDocument
IndexAddDocument(index, doc_id, content) ==
    IndexAddWords(index, doc_id, Split(Lower(content)))

RECURSIVE IntersectAll(_, _, _)
IntersectAll(index, result_set, words) ==
    IF words = <<>>
    THEN result_set
    ELSE IntersectAll(index, result_set \cap IndexGet(index, Head(words)),
                      Tail(words))

\* A search that unites the posting sets instead of intersecting them.
RECURSIVE UniteAll(_, _, _)
UniteAll(index, result_set, words) ==
    IF words = <<>>
    THEN result_set
    ELSE UniteAll(index, result_set \cup IndexGet(index, Head(words)),
                  Tail(words))

IndexSearchAny(index, search_words) ==
    IF search_words = <<>>
    THEN {}
    ELSE UniteAll(index, IndexGet(index, search_words[1]), Tail(search_words))

\* A search that forgets the last word of the query.
IndexSearchDropLast(index, search_words) ==
    IF search_words = <<>>
    THEN {}
    ELSE IntersectAll(index, IndexGet(index, search_words[1]),
                      SubSeq(search_words, 2, Len(search_words) - 1))

\* A search that skips the words the index does not hold.
RECURSIVE IntersectKnown(_, _, _)
IntersectKnown(index, result_set, words) ==
    IF words = <<>>
    THEN result_set
    ELSE IntersectKnown(index,
                        IF Head(words) \in DOMAIN index
                        THEN result_set \cap index[Head(words)]
                        ELSE result_set,
                        Tail(words))

IndexSearchSkipUnknown(index, search_words) ==
    IF search_words = <<>>
    THEN {}
    ELSE IntersectKnown(index, IndexGet(index, search_words[1]),
                        Tail(search_words))

\* InvertedIndex.search: the first word's set seeds the result, the others
\* narrow it.
IndexSearch(index, search_words) ==
    IF search_words = <<>>
    THEN {}
    ELSE IntersectAll(index, IndexGet(index, search_words[1]),
                      Tail(search_words))

\* A search whose result is the first word's posting set itself, narrowed
\* in place.
SearchEffectInPlace(index, search_words) ==
    IF search_words = <<>> \/ search_words[1] \notin DOMAIN index
    THEN index
    ELSE [index EXCEPT ![search_words[1]] =
             IntersectAll(index, @, Tail(search_words))]

\* A search that enters an empty posting set for every word it does not
\* find.
SearchEffectSetDefault(index, search_words) ==
    LET unknown == { search_words[i] : i \in 1..Len(search_words) }
                     \ DOMAIN index
    IN  index @@ [w \in unknown |-> {}]

\* The index after InvertedIndex.search: line 32 copies the first word's
\* posting set, so line 34 narrows a set the index does not hold, and
\* dict.get with a default enters nothing for a word the index lacks.
SearchEffect(index, search_words) == index

(***************************************************************************)
(* Dataset                                                                 *)
(***************************************************************************)
\* Dataset.__init__ (through DatasetFactory.createDataset)
EmptyDataset == [documents |-> EmptyDict, inverted_index |-> EmptyDict]

\* dict[key] = value
DictSet(dict, key, value) ==
    IF key \in DOMAIN dict
    THEN [dict EXCEPT ![key] = value]
    ELSE dict @@ (key :> value)

\* Dataset.addDocument: store, then index.
DatasetAddDocument(dataset, doc_id, document) ==
    [documents      |-> DictSet(dataset.documents, doc_id, document),
     inverted_index |-> IndexAddDocument(dataset.inverted_index, doc_id,
                                         document.content)]


(***************************************************************************)
(* SearchResult, SortStrategy                                              *)
(***************************************************************************)
\* SearchResult.__init__: a reference to the document.
SearchResult(document) == [document |-> document]

\* The sort key of KeySortStrategy.sort's lambda.
SortKey(result, inp_key) == get_key_value(result.document, inp_key)

\* Where sorted() places one more element: behind every element whose key
\* is not greater, so that equal keys keep their input order.
RECURSIVE InsertByKey(_, _, _)
InsertByKey(sorted, result, inp_key) ==
    IF sorted = <<>>
    THEN <<result>>
    ELSE IF StrLess(SortKey(result, inp_key), SortKey(Head(sorted), inp_key))
         THEN <<result>> \o sorted
         ELSE <<Head(sorted)>> \o InsertByKey(Tail(sorted), result, inp_key)

RECURSIVE SortedFrom(_, _, _)
SortedFrom(sorted, rest, inp_key) ==
    IF rest = <<>>
    THEN sorted
    ELSE SortedFrom(InsertByKey(sorted, Head(rest), inp_key), Tail(rest),
                    inp_key)

\* An ordering that places an element in front of the elements of equal key.
RECURSIVE InsertByKeyFront(_, _, _)
InsertByKeyFront(sorted, result, inp_key) ==
    IF sorted = <<>>
    THEN <<result>>
    ELSE IF StrLess(SortKey(Head(sorted), inp_key), SortKey(result, inp_key))
         THEN <<Head(sorted)>> \o InsertByKeyFront(Tail(sorted), result, inp_key)
         ELSE <<result>> \o sorted

RECURSIVE SortedFrontFrom(_, _, _)
SortedFrontFrom(sorted, rest, inp_key) ==
    IF rest = <<>>
    THEN sorted
    ELSE SortedFrontFrom(InsertByKeyFront(sorted, Head(rest), inp_key),
                         Tail(rest), inp_key)

KeySortUnstable(results_in, inp_key) == SortedFrontFrom(<<>>, results_in, inp_key)

\* KeySortStrategy.sort (app.py): sorted(results, key=...), ascending and
\* stable.
KeySort(results_in, inp_key) == SortedFrom(<<>>, results_in, inp_key)

(***************************************************************************)
(* Inputs of the calls.                                                    *)
(***************************************************************************)
Names == {"x", "y"}

\* The (content, metaData) arguments of insert_document.
Inputs ==
    { [content |-> <<"a", " ", "b">>,            metaData |-> [date |-> <<"a", "b">>]],
      [content |-> <<"A", " ", " ", "C">>,       metaData |-> [date |-> <<"B">>]],
      [content |-> <<"\t", "b", " ", "c", " ">>, metaData |-> EmptyDict] }

\* The search_patterns arguments of search.
Queries ==
    { <<"a", " ", "b">>,
      <<"b">>,
      <<"C", " ", "a">>,
      <<>>,
      <<" ", "\t">>,
      <<"d", " ", "b">>,
      <<"b", " ", "d">> }

\* Optional[str]: <<>> is None, <<k>> is the string k.
None == <<>>
OrderKeys == {None, <<"">>, <<"date">>, <<"author">>}

\* The arguments main.py's search is called with.
MainQueries == { <<"b">>, <<"C", " ", "a">> }
MainOrderKeys == {None, <<"date">>}

\* "if order_by_key:" -- neither None nor the empty string.
Truthy(order_by_key) == order_by_key # None /\ order_by_key[1] # ""

\* The orders in which a set can be iterated.
Orders(S) ==
    { o \in [1..Cardinality(S) -> S] :
        \A i, j \in 1..Cardinality(S) : o[i] = o[j] => i = j }

(***************************************************************************)
(* SearchEngine, one call at a time.                                       *)
(***************************************************************************)
Threads == {1, 2}

\* A reference to a Dataset object: the one registered under a name, or one
\* that a later assignment to datasets[name] has replaced.
NoRef == [kind |-> "none", name |-> "", idx |-> 0]
Registered(name) == [kind |-> "reg", name |-> name, idx |-> 0]
Orphan(idx) == [kind |-> "orphan", name |-> "", idx |-> idx]

IdleFrame == [op |-> "none", ref |-> NoRef]

NoCall == [op |-> "idle", impl |-> "app", dataset_name |-> "",
           search_patterns |-> <<>>, order_by_key |-> None]

\* The engine after the module-level SearchEngine() of app.py:
\* SearchEngine.__init__ has run once and the instance is entered.
Init ==
    /\ datasets = EmptyDict
    /\ next_doc_id = 1
    /\ call = NoCall
    /\ error = "none"
    /\ matching_doc_ids = {}
    /\ materialized = <<>>
    /\ results = <<>>
    /\ inserted = 0
    /\ originals = EmptyDict
    /\ pc = [t \in Threads |-> "idle"]
    /\ frame = [t \in Threads |-> IdleFrame]
    /\ orphans = <<>>
    /\ instances = ("SearchEngine" :> 1)

\* No call is in progress: calls are made one at a time.
Idle == call.op = "idle"

NoSearch ==
    /\ matching_doc_ids' = {}
    /\ materialized' = <<>>
    /\ results' = <<>>

\* A creation that replaces the dataset registered under the name.
CreateDatasetOverwrite(name) ==
    /\ Idle
    /\ call' = [NoCall EXCEPT !.op = "create", !.dataset_name = name]
    /\ error' = "none"
    /\ datasets' = DictSet(datasets, name, EmptyDataset)
    /\ NoSearch
    /\ UNCHANGED <<next_doc_id, inserted, originals, threads, instances>>

\* SearchEngine.create_dataset
CreateDataset(name) ==
    /\ Idle
    /\ call' = [NoCall EXCEPT !.op = "create", !.dataset_name = name]
    /\ error' = "none"
    /\ datasets' = IF name \notin DOMAIN datasets
                   THEN DictSet(datasets, name, EmptyDataset)
                   ELSE datasets
    /\ NoSearch
    /\ UNCHANGED <<next_doc_id, inserted, originals, threads, instances>>

\* An insert that numbers the documents of each dataset from 1.
InsertDocumentPerDataset(dataset_name, content, metaData) ==
    /\ Idle
    /\ call' = [NoCall EXCEPT !.op = "insert", !.dataset_name = dataset_name]
    /\ NoSearch
    /\ IF dataset_name \in DOMAIN datasets
       THEN LET id == Cardinality(DOMAIN datasets[dataset_name].documents) + 1
            IN  /\ inserted < MaxDocs
                /\ datasets' = [datasets EXCEPT ![dataset_name] =
                        DatasetAddDocument(@, id, Document(id, content, metaData))]
                /\ next_doc_id' = next_doc_id + 1
                /\ inserted' = inserted + 1
                /\ originals' = DictSet(originals, id, content)
                /\ error' = "none"
       ELSE /\ error' = "ValueError"
            /\ UNCHANGED <<datasets, next_doc_id, inserted, originals>>
    /\ UNCHANGED <<threads, instances>>

\* An insert that takes an id even when the dataset does not exist.
InsertDocumentEager(dataset_name, content, metaData) ==
    /\ Idle
    /\ call' = [NoCall EXCEPT !.op = "insert", !.dataset_name = dataset_name]
    /\ NoSearch
    /\ next_doc_id' = next_doc_id + 1
    /\ IF dataset_name \in DOMAIN datasets
       THEN /\ inserted < MaxDocs
            /\ datasets' = [datasets EXCEPT ![dataset_name] =
                    DatasetAddDocument(@, next_doc_id,
                        Document(next_doc_id, content, metaData))]
            /\ inserted' = inserted + 1
            /\ originals' = DictSet(originals, next_doc_id, content)
            /\ error' = "none"
       ELSE /\ next_doc_id < MaxDocs
            /\ error' = "ValueError"
            /\ UNCHANGED <<datasets, inserted, originals>>
    /\ UNCHANGED <<threads, instances>>

\* An insertion whose words go into the index of every dataset.
InsertDocumentShared(dataset_name, content, metaData) ==
    /\ Idle
    /\ call' = [NoCall EXCEPT !.op = "insert", !.dataset_name = dataset_name]
    /\ NoSearch
    /\ IF dataset_name \in DOMAIN datasets
       THEN /\ inserted < MaxDocs
            /\ datasets' = [n \in DOMAIN datasets |->
                    IF n = dataset_name
                    THEN DatasetAddDocument(datasets[n], next_doc_id,
                             Document(next_doc_id, content, metaData))
                    ELSE [datasets[n] EXCEPT !.inverted_index =
                             IndexAddDocument(@, next_doc_id, content)]]
            /\ next_doc_id' = next_doc_id + 1
            /\ inserted' = inserted + 1
            /\ originals' = DictSet(originals, next_doc_id, content)
            /\ error' = "none"
       ELSE /\ error' = "ValueError"
            /\ UNCHANGED <<datasets, next_doc_id, inserted, originals>>
    /\ UNCHANGED <<threads, instances>>

\* SearchEngine.insert_document
InsertDocument(dataset_name, content, metaData) ==
    /\ Idle
    /\ call' = [NoCall EXCEPT !.op = "insert", !.dataset_name = dataset_name]
    /\ NoSearch
    /\ IF dataset_name \in DOMAIN datasets
       THEN /\ inserted < MaxDocs
            /\ datasets' = [datasets EXCEPT ![dataset_name] =
                    DatasetAddDocument(@, next_doc_id,
                        Document(next_doc_id, content, metaData))]
            /\ next_doc_id' = next_doc_id + 1
            /\ inserted' = inserted + 1
            /\ originals' = DictSet(originals, next_doc_id, content)
            /\ error' = "none"
       ELSE /\ error' = "ValueError"
            /\ UNCHANGED <<datasets, next_doc_id, inserted, originals>>
    /\ UNCHANGED <<threads, instances>>

\* The metaData argument is stored as it is passed (Document.__init__): a
\* dict, or the str that upload_bulk_documents builds, modelled as the
\* record [str |-> its characters]. Only a dict has the method get.
IsStr(metaData) == DOMAIN metaData = {"str"}

\* The key lambda of KeySortStrategy.sort is called on every element of a
\* non-empty list; Document.get_key_value raises AttributeError when
\* meta_data is a str.
LookupFails(rs) == \E i \in 1..Len(rs) : IsStr(rs[i].document.meta_data)

\* A search that splits the query without lowercasing it.
MaterializeCaseSensitive(dataset, search_patterns, sort_by) ==
    LET search_words == Split(search_patterns)
        ids == IndexSearch(dataset.inverted_index, search_words)
    IN  /\ matching_doc_ids' = ids
        /\ IF ids \subseteq DOMAIN dataset.documents
           THEN \E order \in Orders(ids) :
                  /\ materialized' =
                       [i \in 1..Len(order) |->
                           SearchResult(dataset.documents[order[i]])]
                  /\ IF sort_by # None /\ LookupFails(materialized')
                     THEN /\ results' = <<>>
                          /\ error' = "AttributeError"
                     ELSE /\ results' = IF sort_by = None
                                        THEN materialized'
                                        ELSE KeySort(materialized', sort_by[1])
                          /\ error' = "none"
           ELSE /\ materialized' = <<>>
                /\ results' = <<>>
                /\ error' = "KeyError"

\* Lines 105-109 of SearchEngine.search, the same in app.py and main.py:
\* split the query, ask the index, and build one SearchResult per id in the
\* set's iteration order, which the language leaves open.
\* Dataset.gte_document_by_id raises KeyError for an id the store does not
\* hold. sort_by is the key the list is then sorted by, None for no sort.
Materialize(dataset, search_patterns, sort_by) ==
    LET search_words == Split(Lower(search_patterns))
        ids == IndexSearch(dataset.inverted_index, search_words)
    IN  /\ matching_doc_ids' = ids
        /\ IF ids \subseteq DOMAIN dataset.documents
           THEN \E order \in Orders(ids) :
                  /\ materialized' =
                       [i \in 1..Len(order) |->
                           SearchResult(dataset.documents[order[i]])]
                  /\ IF sort_by # None /\ LookupFails(materialized')
                     THEN /\ results' = <<>>
                          /\ error' = "AttributeError"
                     ELSE /\ results' = IF sort_by = None
                                        THEN materialized'
                                        ELSE KeySort(materialized', sort_by[1])
                          /\ error' = "none"
           ELSE /\ materialized' = <<>>
                /\ results' = <<>>
                /\ error' = "KeyError"

\* SearchEngine.search of app.py: lines 111-112 sort when order_by_key is
\* neither None nor empty.
Search(dataset_name, search_patterns, order_by_key) ==
    /\ Idle
    /\ call' = [op |-> "search", impl |-> "app", dataset_name |-> dataset_name,
                search_patterns |-> search_patterns,
                order_by_key |-> order_by_key]
    /\ IF dataset_name \notin DOMAIN datasets
       THEN /\ error' = "ValueError"
            /\ NoSearch
            /\ datasets' = datasets
       ELSE /\ Materialize(datasets[dataset_name], search_patterns,
                           IF Truthy(order_by_key) THEN order_by_key ELSE None)
            /\ datasets' = [datasets EXCEPT ![dataset_name].inverted_index =
                    SearchEffect(@, Split(Lower(search_patterns)))]
    /\ UNCHANGED <<next_doc_id, inserted, originals, threads, instances>>

\* SearchEngine.search of main.py: the sort (lines 135-136) is commented
\* out, order_by_key is not used.
SearchMain(dataset_name, search_patterns, order_by_key) ==
    /\ Idle
    /\ call' = [op |-> "search", impl |-> "main", dataset_name |-> dataset_name,
                search_patterns |-> search_patterns,
                order_by_key |-> order_by_key]
    /\ IF dataset_name \notin DOMAIN datasets
       THEN /\ error' = "ValueError"
            /\ NoSearch
            /\ datasets' = datasets
       ELSE /\ Materialize(datasets[dataset_name], search_patterns, None)
            /\ datasets' = [datasets EXCEPT ![dataset_name].inverted_index =
                    SearchEffect(@, Split(Lower(search_patterns)))]
    /\ UNCHANGED <<next_doc_id, inserted, originals, threads, instances>>

\* The call returns to its caller; the result list is not kept.
Return ==
    /\ ~Idle
    /\ call' = NoCall
    /\ error' = "none"
    /\ NoSearch
    /\ UNCHANGED <<datasets, next_doc_id, inserted, originals, threads, instances>>

(***************************************************************************)
(* upload_bulk_documents (app.py), the other caller of insert_document.    *)
(***************************************************************************)
\* str.split(sep) for a one-character separator: the pieces between the
\* separators, empty pieces kept.
RECURSIVE SplitOnFrom(_, _, _, _, _)
SplitOnFrom(s, sep, i, piece, pieces) ==
    IF i > Len(s)
    THEN Append(pieces, piece)
    ELSE IF s[i] = sep
         THEN SplitOnFrom(s, sep, i + 1, <<>>, Append(pieces, piece))
         ELSE SplitOnFrom(s, sep, i + 1, Append(piece, s[i]), pieces)

SplitOn(s, sep) == SplitOnFrom(s, sep, 1, <<>>, <<>>)

\* str.strip()
RECURSIVE Strip(_)
Strip(s) ==
    IF s = <<>> THEN s
    ELSE IF IsSpace(Head(s)) THEN Strip(Tail(s))
    ELSE IF IsSpace(s[Len(s)]) THEN Strip(SubSeq(s, 1, Len(s) - 1))
    ELSE s

\* Lines 190-199: the text built from one row's metadata column, item by
\* item: "key": "value" for an item with a colon (split at the first one),
\* a separator unless the item is the last; the other items are skipped.
RECURSIVE BulkItems(_, _, _)
BulkItems(items, index, str_test) ==
    IF index > Len(items)
    THEN str_test
    ELSE LET item1 == items[index]
             colons == { i \in 1..Len(item1) : item1[i] = ":" }
         IN  IF colons = {}
             THEN BulkItems(items, index + 1, str_test)
             ELSE LET at == CHOOSE i \in colons : \A j \in colons : i <= j
                      key == Strip(SubSeq(item1, 1, at - 1))
                      value == Strip(SubSeq(item1, at + 1, Len(item1)))
                      pair == <<"\"">> \o key \o <<"\"", ":", " ", "\"">>
                                \o value \o <<"\"">>
                  IN  BulkItems(items, index + 1,
                                str_test \o pair
                                  \o (IF index < Len(items)
                                      THEN <<",", " ">> ELSE <<>>))

BulkMetaData(metadata_str) ==
    [str |-> BulkItems(SplitOn(metadata_str, ","), 1, <<"{">>) \o <<"}">>]

\* Lines 180-188: the rows that are inserted.
BulkRowUsed(row) == Len(row) >= 2 /\ Strip(row[1]) # <<>>

\* Lines 179-201: one insert_document per used row, in order.
RECURSIVE BulkRows(_, _, _)
BulkRows(state, dataset_name, rows) ==
    IF rows = <<>>
    THEN state
    ELSE IF ~BulkRowUsed(Head(rows))
         THEN BulkRows(state, dataset_name, Tail(rows))
         ELSE LET content == Head(rows)[1]
                  id == state.next_doc_id
                  doc == Document(id, content, BulkMetaData(Head(rows)[2]))
              IN  BulkRows(
                    [datasets |-> [state.datasets EXCEPT ![dataset_name] =
                                      DatasetAddDocument(@, id, doc)],
                     next_doc_id |-> id + 1,
                     originals |-> DictSet(state.originals, id, content)],
                    dataset_name, Tail(rows))

\* The uploaded files, as csv.reader yields them: rows of columns.
BulkFiles ==
    { << <<<<"a", " ", "b">>, <<"d", "a", "t", "e", ":", "b">>>> >>,
      << <<<<"b">>, <<"d", "a", "t", "e", ":", " ", "a", ",", "x">>>>,
         <<<<" ">>, <<"d", "a", "t", "e", ":", "a">>>>,
         <<<<"C", " ", "a">>, <<"x">>>> >>,
      << <<<<"a">>>> >> }

BulkNames == {"x", ""}

\* upload_bulk_documents: without a dataset name the request is refused;
\* otherwise the dataset is created if need be and the rows are inserted.
UploadBulkDocuments(dataset_name, rows) ==
    /\ Idle
    /\ call' = [NoCall EXCEPT !.op = "bulk", !.dataset_name = dataset_name]
    /\ NoSearch
    /\ IF dataset_name = ""
       THEN /\ error' = "400"
            /\ UNCHANGED <<datasets, next_doc_id, inserted, originals>>
       ELSE LET created == IF dataset_name \notin DOMAIN datasets
                           THEN DictSet(datasets, dataset_name, EmptyDataset)
                           ELSE datasets
                done == BulkRows([datasets |-> created,
                                  next_doc_id |-> next_doc_id,
                                  originals |-> originals],
                                 dataset_name, rows)
            IN  /\ done.next_doc_id - 1 <= MaxDocs
                /\ datasets' = done.datasets
                /\ next_doc_id' = done.next_doc_id
                /\ originals' = done.originals
                /\ inserted' = inserted + (done.next_doc_id - next_doc_id)
                /\ error' = "none"
    /\ UNCHANGED <<threads, instances>>

NextBulk ==
    \/ Return
    \/ \E name \in BulkNames, rows \in BulkFiles : UploadBulkDocuments(name, rows)
    \/ \E name \in Names, input \in Inputs :
          InsertDocument(name, input.content, input.metaData)
    \/ \E name \in Names, q \in Queries, k \in OrderKeys : Search(name, q, k)

SpecBulk == Init /\ [][NextBulk]_vars

(***************************************************************************)
(* SingletonMeta: the construction of the engine.                          *)
(***************************************************************************)
\* A metaclass call that makes and initialises a new instance every time.
SingletonCallAlways(cls) ==
    /\ Idle
    /\ call' = [NoCall EXCEPT !.op = "construct"]
    /\ error' = "none"
    /\ NoSearch
    /\ datasets' = EmptyDict
    /\ next_doc_id' = 1
    /\ instances' = DictSet(instances, cls,
                            IF cls \in DOMAIN instances
                            THEN instances[cls] + 1 ELSE 1)
    /\ UNCHANGED <<inserted, originals, threads>>

\* SingletonMeta.__call__, the call SearchEngine(): the first one makes the
\* instance, which runs SearchEngine.__init__, and enters it in _instances;
\* every call returns the instance entered. An instance is named by the
\* number of the object made for its class.
SingletonCall(cls) ==
    /\ Idle
    /\ call' = [NoCall EXCEPT !.op = "construct"]
    /\ error' = "none"
    /\ NoSearch
    /\ IF cls \notin DOMAIN instances
       THEN /\ datasets' = EmptyDict
            /\ next_doc_id' = 1
            /\ instances' = DictSet(instances, cls, 1)
       ELSE UNCHANGED <<datasets, next_doc_id, instances>>
    /\ UNCHANGED <<inserted, originals, threads>>

\* The process before the module-level SearchEngine() of app.py: no
\* instance is entered yet.
InitProcess ==
    /\ datasets = EmptyDict
    /\ next_doc_id = 1
    /\ call = NoCall
    /\ error = "none"
    /\ matching_doc_ids = {}
    /\ materialized = <<>>
    /\ results = <<>>
    /\ inserted = 0
    /\ originals = EmptyDict
    /\ pc = [t \in Threads |-> "idle"]
    /\ frame = [t \in Threads |-> IdleFrame]
    /\ orphans = <<>>
    /\ instances = EmptyDict

\* The methods are called on the instance a construction returned.
Constructed == "SearchEngine" \in DOMAIN instances

NextSingleton ==
    \/ SingletonCall("SearchEngine")
    \/ Return
    \/ Constructed /\ \E name \in Names : CreateDataset(name)
    \/ Constructed /\ \E name \in Names, input \in Inputs :
          InsertDocument(name, input.content, input.metaData)
    \/ Constructed /\ \E name \in Names, q \in MainQueries, k \in MainOrderKeys :
          Search(name, q, k)

SpecSingleton == InitProcess /\ [][NextSingleton]_vars

Next ==
    \/ Return
    \/ \E name \in Names : CreateDataset(name)
    \/ \E name \in Names, input \in Inputs :
          InsertDocument(name, input.content, input.metaData)
    \/ \E name \in Names, q \in Queries, k \in OrderKeys : Search(name, q, k)
    \/ \E name \in Names, q \in MainQueries, k \in MainOrderKeys :
          SearchMain(name, q, k)

Spec == Init /\ [][Next]_vars

(***************************************************************************)
(* SearchEngine under concurrently served requests: the engine is one      *)
(* shared object without locks, and a thread may be preempted between any  *)
(* two reads or writes of it. Each action below is one such access, with   *)
(* the thread-local computation that follows it.                           *)
(***************************************************************************)
ConcNames == {"x"}

ConcInputs ==
    { [content |-> <<"a", " ", "b">>, metaData |-> [date |-> <<"a", "b">>]],
      [content |-> <<"b">>,           metaData |-> EmptyDict] }

ConcQueries == { <<"a", " ", "b">>, <<"b">> }

ConcOrderKeys == {None, <<"date">>}

Deref(ref) ==
    IF ref.kind = "reg" THEN datasets[ref.name] ELSE orphans[ref.idx]

\* A write to the Dataset object a reference points to.
WriteDataset(ref, dataset) ==
    IF ref.kind = "reg"
    THEN /\ datasets' = [datasets EXCEPT ![ref.name] = dataset]
         /\ orphans' = orphans
    ELSE /\ orphans' = [orphans EXCEPT ![ref.idx] = dataset]
         /\ datasets' = datasets

Goto(t, label) == pc' = [pc EXCEPT ![t] = label]

\* insert_document calls begun: those completed and those in progress.
InsertsBegun ==
    inserted + Cardinality({ t \in Threads : frame[t].op = "insert"
                                             /\ frame[t].error = "none" })

BeginCreate(t, name) ==
    /\ pc[t] = "idle"
    /\ Goto(t, "c_check")
    /\ frame' = [frame EXCEPT ![t] =
           [op |-> "create", dataset_name |-> name, error |-> "none",
            ref |-> NoRef]]
    /\ UNCHANGED <<engine, inserted, orphans, sequential, instances>>

BeginInsert(t, dataset_name, content, metaData) ==
    /\ pc[t] = "idle"
    /\ InsertsBegun < MaxConcDocs
    /\ Goto(t, "i_check")
    /\ frame' = [frame EXCEPT ![t] =
           [op |-> "insert", dataset_name |-> dataset_name,
            content |-> content, metaData |-> metaData, error |-> "none",
            ref |-> NoRef, doc |-> <<>>, doc_id |-> 0, words |-> <<>>,
            loaded |-> 0]]
    /\ UNCHANGED <<engine, inserted, orphans, sequential, instances>>

BeginSearch(t, dataset_name, search_patterns, order_by_key) ==
    /\ pc[t] = "idle"
    /\ Goto(t, "s_check")
    /\ frame' = [frame EXCEPT ![t] =
           [op |-> "search", dataset_name |-> dataset_name,
            search_patterns |-> search_patterns,
            order_by_key |-> order_by_key, error |-> "none",
            ref |-> NoRef, search_words |-> <<>>, result_set |-> {},
            matching_doc_ids |-> {}, results |-> <<>>]]
    /\ UNCHANGED <<engine, inserted, orphans, sequential, instances>>

\* create_dataset, line 89: "if name not in self.datasets".
CreateCheck(t) ==
    /\ pc[t] = "c_check"
    /\ IF frame[t].dataset_name \notin DOMAIN datasets
       THEN Goto(t, "c_store")
       ELSE Goto(t, "done")
    /\ UNCHANGED <<engine, inserted, frame, orphans, sequential, instances>>

\* create_dataset, lines 90-91: "self.datasets[name] = Dataset()". A Dataset
\* registered in the meantime is replaced; the threads that hold it keep it.
CreateStore(t) ==
    /\ pc[t] = "c_store"
    /\ LET name == frame[t].dataset_name
           holders == { u \in Threads : frame[u].ref = Registered(name) }
       IN  /\ datasets' = DictSet(datasets, name, EmptyDataset)
           /\ IF name \in DOMAIN datasets /\ holders # {}
              THEN /\ orphans' = Append(orphans, datasets[name])
                   /\ frame' = [u \in Threads |->
                         IF u \in holders
                         THEN [frame[u] EXCEPT !.ref = Orphan(Len(orphans) + 1)]
                         ELSE frame[u]]
              ELSE UNCHANGED <<orphans, frame>>
    /\ Goto(t, "done")
    /\ UNCHANGED <<next_doc_id, inserted, sequential, instances>>

\* insert_document, line 94 (and 99): "if dataset_name in self.datasets".
InsertCheck(t) ==
    /\ pc[t] = "i_check"
    /\ IF frame[t].dataset_name \in DOMAIN datasets
       THEN /\ Goto(t, "i_doc")
            /\ frame' = frame
       ELSE /\ Goto(t, "done")
            /\ frame' = [frame EXCEPT ![t].error = "ValueError"]
    /\ UNCHANGED <<engine, inserted, orphans, sequential, instances>>

\* insert_document, line 95: Document(self.next_doc_id, content, metaData).
InsertDoc(t) ==
    /\ pc[t] = "i_doc"
    /\ frame' = [frame EXCEPT ![t].doc =
           Document(next_doc_id, frame[t].content, frame[t].metaData)]
    /\ Goto(t, "i_arg")
    /\ UNCHANGED <<engine, inserted, orphans, sequential, instances>>

\* insert_document, line 96, the arguments of the call:
\* self.datasets[dataset_name] and self.next_doc_id (read again). With two
\* threads, at most one of the two values changes between the two reads, so
\* reading them together loses no outcome.
InsertArgs(t) ==
    /\ pc[t] = "i_arg"
    /\ frame' = [frame EXCEPT ![t].ref = Registered(frame[t].dataset_name),
                              ![t].doc_id = next_doc_id]
    /\ Goto(t, "i_store")
    /\ UNCHANGED <<engine, inserted, orphans, sequential, instances>>

\* A Dataset.addDocument that goes on to the index without storing the
\* document.
InsertStoreSkipped(t) ==
    /\ pc[t] = "i_store"
    /\ LET words == Split(Lower(frame[t].doc.content))
       IN  /\ frame' = [frame EXCEPT ![t].words = words]
           /\ Goto(t, IF words = <<>> THEN "i_load" ELSE "i_test")
    /\ UNCHANGED <<engine, inserted, orphans, sequential, instances>>

\* Dataset.addDocument, line 44: "self.documents[doc_id] = document"; then
\* line 23, local: the words of the content.
InsertStore(t) ==
    /\ pc[t] = "i_store"
    /\ LET f == frame[t]
           dataset == Deref(f.ref)
           words == Split(Lower(f.doc.content))
       IN  /\ WriteDataset(f.ref,
                  [dataset EXCEPT !.documents = DictSet(@, f.doc_id, f.doc)])
           /\ frame' = [frame EXCEPT ![t].words = words]
           /\ Goto(t, IF words = <<>> THEN "i_load" ELSE "i_test")
    /\ UNCHANGED <<next_doc_id, inserted, sequential, instances>>

\* InvertedIndex.addDocument, line 25: "if word not in self.index".
InsertTest(t) ==
    /\ pc[t] = "i_test"
    /\ Goto(t, IF Head(frame[t].words) \in DOMAIN Deref(frame[t].ref).inverted_index
               THEN "i_add" ELSE "i_new")
    /\ UNCHANGED <<engine, inserted, frame, orphans, sequential, instances>>

\* InvertedIndex.addDocument, line 26: "self.index[word] = set()".
InsertNew(t) ==
    /\ pc[t] = "i_new"
    /\ LET f == frame[t]
           dataset == Deref(f.ref)
       IN  WriteDataset(f.ref,
               [dataset EXCEPT !.inverted_index = DictSet(@, Head(f.words), {})])
    /\ Goto(t, "i_add")
    /\ UNCHANGED <<next_doc_id, inserted, frame, sequential, instances>>

\* InvertedIndex.addDocument, line 27: "self.index[word].add(doc_id)", and
\* the loop's next round.
InsertAdd(t) ==
    /\ pc[t] = "i_add"
    /\ LET f == frame[t]
           dataset == Deref(f.ref)
           rest == Tail(f.words)
       IN  /\ WriteDataset(f.ref,
                  [dataset EXCEPT !.inverted_index[Head(f.words)] =
                                      @ \cup {f.doc_id}])
           /\ frame' = [frame EXCEPT ![t].words = rest]
           /\ Goto(t, IF rest = <<>> THEN "i_load" ELSE "i_test")
    /\ UNCHANGED <<next_doc_id, inserted, sequential, instances>>

\* insert_document, line 97, "self.next_doc_id += 1": the read.
InsertLoad(t) ==
    /\ pc[t] = "i_load"
    /\ frame' = [frame EXCEPT ![t].loaded = next_doc_id]
    /\ Goto(t, "i_inc")
    /\ UNCHANGED <<engine, inserted, orphans, sequential, instances>>

\* insert_document, line 97, "self.next_doc_id += 1": the write.
InsertInc(t) ==
    /\ pc[t] = "i_inc"
    /\ next_doc_id' = frame[t].loaded + 1
    /\ inserted' = inserted + 1
    /\ frame' = [frame EXCEPT ![t].op = "inserted"]
    /\ Goto(t, "done")
    /\ UNCHANGED <<datasets, orphans, sequential, instances>>

\* search, lines 102-103: "if dataset_name not in self.datasets".
SearchCheck(t) ==
    /\ pc[t] = "s_check"
    /\ IF frame[t].dataset_name \in DOMAIN datasets
       THEN /\ Goto(t, "s_ds")
            /\ frame' = frame
       ELSE /\ Goto(t, "done")
            /\ frame' = [frame EXCEPT ![t].error = "ValueError"]
    /\ UNCHANGED <<engine, inserted, orphans, sequential, instances>>

\* search, lines 105-106: the words of the query, local, and
\* "dataset = self.datasets[dataset_name]".
SearchDataset(t) ==
    /\ pc[t] = "s_ds"
    /\ frame' = [frame EXCEPT
           ![t].ref = Registered(frame[t].dataset_name),
           ![t].search_words = Split(Lower(frame[t].search_patterns))]
    /\ Goto(t, "s_seed")
    /\ UNCHANGED <<engine, inserted, orphans, sequential, instances>>

\* InvertedIndex.search, lines 30-32: no words, or the copy of the first
\* word's posting set.
SearchSeed(t) ==
    /\ pc[t] = "s_seed"
    /\ LET f == frame[t]
       IN  IF f.search_words = <<>>
           THEN /\ frame' = frame
                /\ Goto(t, "s_mat")
           ELSE /\ frame' = [frame EXCEPT
                       ![t].result_set =
                           IndexGet(Deref(f.ref).inverted_index, Head(f.search_words)),
                       ![t].matching_doc_ids =
                           IF Len(f.search_words) = 1
                           THEN IndexGet(Deref(f.ref).inverted_index,
                                         Head(f.search_words))
                           ELSE {},
                       ![t].search_words = Tail(f.search_words)]
                /\ Goto(t, IF Len(f.search_words) = 1 THEN "s_mat" ELSE "s_inter")
    /\ UNCHANGED <<engine, inserted, orphans, sequential, instances>>

\* InvertedIndex.search, line 34: one intersection_update.
SearchIntersect(t) ==
    /\ pc[t] = "s_inter"
    /\ LET f == frame[t]
           narrowed == f.result_set
                         \cap IndexGet(Deref(f.ref).inverted_index,
                                       Head(f.search_words))
           last == Len(f.search_words) = 1
       IN  /\ frame' = [frame EXCEPT
                  ![t].result_set = narrowed,
                  ![t].matching_doc_ids = IF last THEN narrowed ELSE {},
                  ![t].search_words = Tail(f.search_words)]
           /\ Goto(t, IF last THEN "s_mat" ELSE "s_inter")
    /\ UNCHANGED <<engine, inserted, orphans, sequential, instances>>

\* search, line 109: one round of the comprehension, the next id of the
\* set's iteration and its lookup in dataset.documents (KeyError when the
\* store does not hold it); after the last round lines 111-114, local: the
\* optional sort and the return.
SearchMaterialize(t) ==
    /\ pc[t] = "s_mat"
    /\ LET f == frame[t]
           documents == Deref(f.ref).documents
       IN  IF f.result_set = {}
           THEN /\ frame' = [frame EXCEPT ![t].results =
                       IF Truthy(f.order_by_key)
                       THEN KeySort(f.results, f.order_by_key[1])
                       ELSE f.results]
                /\ Goto(t, "done")
           ELSE \E doc_id \in f.result_set :
                  IF doc_id \in DOMAIN documents
                  THEN /\ frame' = [frame EXCEPT
                              ![t].results =
                                  Append(@, SearchResult(documents[doc_id])),
                              ![t].result_set = @ \ {doc_id}]
                       /\ pc' = pc
                  ELSE /\ frame' = [frame EXCEPT ![t].error = "KeyError",
                                                 ![t].results = <<>>]
                       /\ Goto(t, "done")
    /\ UNCHANGED <<engine, inserted, orphans, sequential, instances>>

\* The request is answered; the thread takes the next request. A Dataset
\* object that no thread holds any more is dropped.
Respond(t) ==
    /\ pc[t] = "done"
    /\ Goto(t, "idle")
    /\ LET kept == [frame EXCEPT ![t] = IdleFrame]
       IN  IF \E u \in Threads : kept[u].ref.kind = "orphan"
           THEN frame' = kept /\ orphans' = orphans
           ELSE frame' = kept /\ orphans' = <<>>
    /\ UNCHANGED <<engine, inserted, sequential, instances>>

ConcNext ==
    \E t \in Threads :
        \/ \E name \in ConcNames : BeginCreate(t, name)
        \/ \E name \in ConcNames, input \in ConcInputs :
              BeginInsert(t, name, input.content, input.metaData)
        \/ \E name \in ConcNames, q \in ConcQueries, k \in ConcOrderKeys :
              BeginSearch(t, name, q, k)
        \/ CreateCheck(t)
        \/ CreateStore(t)
        \/ InsertCheck(t)
        \/ InsertDoc(t)
        \/ InsertArgs(t)
        \/ InsertStore(t)
        \/ InsertTest(t)
        \/ InsertNew(t)
        \/ InsertAdd(t)
        \/ InsertLoad(t)
        \/ InsertInc(t)
        \/ SearchCheck(t)
        \/ SearchDataset(t)
        \/ SearchSeed(t)
        \/ SearchIntersect(t)
        \/ SearchMaterialize(t)
        \/ Respond(t)

SpecConc == Init /\ [][ConcNext]_vars

(***************************************************************************)
(* Vocabulary of the properties.                                           *)
(***************************************************************************)
\* The lowercase whitespace-delimited tokens of a string, by position: the
\* maximal runs of non-whitespace characters of the lowercased string.
TokenSet(s) ==
    LET l == Lower(s)
        n == Len(l)
        IsToken(i, j) ==
            /\ i <= j
            /\ \A k \in i..j : ~IsSpace(l[k])
            /\ i = 1 \/ IsSpace(l[i - 1])
            /\ j = n \/ IsSpace(l[j + 1])
    IN  { SubSeq(l, p[1], p[2]) :
            p \in { q \in (1..n) \X (1..n) : IsToken(q[1], q[2]) } }

\* The ids of the documents of a dataset that hold every token of a query.
Matches(dataset, search_patterns) ==
    { d \in DOMAIN dataset.documents :
        TokenSet(search_patterns) \subseteq TokenSet(dataset.documents[d].content) }

\* The ids stored in any dataset.
StoredIds == UNION { DOMAIN datasets[n].documents : n \in DOMAIN datasets }

\* The store and the index of a dataset agree: under every term, indexed or
\* not, the posting set holds the ids of the stored documents with that
\* token and no other id.
InSync(dataset) ==
    LET tokens == [d \in DOMAIN dataset.documents |->
                      TokenSet(dataset.documents[d].content)]
        terms == DOMAIN dataset.inverted_index
                 \cup UNION { tokens[d] : d \in DOMAIN dataset.documents }
                 \cup { <<"d">> }
    IN  \A T \in terms :
            IndexGet(dataset.inverted_index, T)
              = { d \in DOMAIN dataset.documents : T \in tokens[d] }

\* The documents of a result list, as a set.
DocumentsOf(rs) == { rs[i].document : i \in 1..Len(rs) }

\* A search call on a registered dataset has completed.
Searched == call.op = "search" /\ call.dataset_name \in DOMAIN datasets

(***************************************************************************)
(* C1: search(ds, q, None) on a registered dataset returns exactly one     *)
(* result for each document of ds whose content holds every token of q,    *)
(* and nothing else; a query without tokens returns the empty list.        *)
(***************************************************************************)
C1_SearchReturnsMatches ==
    (Searched /\ call.order_by_key = None) =>
        LET dataset == datasets[call.dataset_name]
            expected == IF TokenSet(call.search_patterns) = {}
                        THEN {}
                        ELSE Matches(dataset, call.search_patterns)
        IN  /\ error = "none"
            /\ Len(results) = Cardinality(expected)
            /\ DocumentsOf(results) = { dataset.documents[d] : d \in expected }

C1_Witness ==
    /\ Searched /\ call.order_by_key = None
    /\ Cardinality(TokenSet(call.search_patterns)) = 2
    /\ Len(results) = 2
    /\ Cardinality(DOMAIN datasets[call.dataset_name].documents) = 3

(***************************************************************************)
(* C2: in every state of a sequential run, for every dataset, term T and   *)
(* id d: d is in the posting set of T iff d is a key of the dataset's      *)
(* document store and T is a token of the stored document's content.       *)
(***************************************************************************)
C2_IndexInSync == \A n \in DOMAIN datasets : InSync(datasets[n])

C2_Witness ==
    /\ call.op = "search"
    /\ \E n \in DOMAIN datasets :
         /\ Cardinality(DOMAIN datasets[n].documents) = 3
         /\ \E w \in DOMAIN datasets[n].inverted_index :
              Cardinality(datasets[n].inverted_index[w]) = 2

(***************************************************************************)
(* C3: the k-th successful insert_document call, counted over all          *)
(* datasets, stores its document under id k, an id no dataset held before; *)
(* an insert_document call that fails consumes no id.                      *)
(***************************************************************************)
C3_IdsSequential ==
    [][ (Idle /\ call'.op = "insert") =>
          IF error' = "none"
          THEN LET k == inserted'
                   documents == datasets'[call'.dataset_name].documents
               IN  /\ k = inserted + 1
                   /\ k \notin StoredIds
                   /\ k \in DOMAIN documents
                   /\ documents[k].doc_id = k
                   /\ \A n \in DOMAIN datasets :
                        DOMAIN datasets'[n].documents =
                          DOMAIN datasets[n].documents
                            \cup (IF n = call'.dataset_name THEN {k} ELSE {})
          ELSE /\ inserted' = inserted
               /\ next_doc_id' = next_doc_id
               /\ datasets' = datasets ]_vars

C3_Witness ==
    /\ call.op = "insert" /\ error = "none" /\ inserted = 3
    /\ \E n \in DOMAIN datasets : n # call.dataset_name /\ 2 \in DOMAIN datasets[n].documents
    /\ 3 \in DOMAIN datasets[call.dataset_name].documents
    /\ 1 \in DOMAIN datasets[call.dataset_name].documents

(***************************************************************************)
(* C4: insert_document and search on a name that is not registered raise   *)
(* the dataset-not-found error and leave the datasets, the document        *)
(* stores, the posting sets and the id counter as they were.               *)
(***************************************************************************)
C4_NotFoundChangesNothing ==
    [][ (/\ Idle
         /\ call'.op \in {"insert", "search"}
         /\ call'.dataset_name \notin DOMAIN datasets) =>
          /\ error' = "ValueError"
          /\ datasets' = datasets
          /\ next_doc_id' = next_doc_id
          /\ results' = <<>> ]_vars

C4_Witness ==
    /\ call.op = "insert" /\ error = "ValueError"
    /\ call.dataset_name \notin DOMAIN datasets
    /\ inserted >= 1

(***************************************************************************)
(* C5: create_dataset on an unregistered name adds one empty dataset under *)
(* it; on a registered name it raises nothing and changes nothing. Either  *)
(* way the other datasets and the id counter stay as they were.            *)
(***************************************************************************)
C5_CreateIdempotent ==
    [][ (Idle /\ call'.op = "create") =>
          LET name == call'.dataset_name
          IN  /\ error' = "none"
              /\ next_doc_id' = next_doc_id
              /\ DOMAIN datasets' = DOMAIN datasets \cup {name}
              /\ \A n \in DOMAIN datasets : datasets'[n] = datasets[n]
              /\ name \notin DOMAIN datasets => datasets'[name] = EmptyDataset
      ]_vars

C5_Witness ==
    /\ call.op = "create"
    /\ Cardinality(DOMAIN datasets[call.dataset_name].documents) >= 2

(***************************************************************************)
(* C6: a search that runs concurrently with an insert_document on the same *)
(* dataset never has a partially applied insertion before it: whenever the *)
(* search is about to read the dataset's index or store, every stored      *)
(* document is in the posting sets of its tokens and every posted id is    *)
(* stored.                                                                 *)
(***************************************************************************)
ReadsDataset(t) == pc[t] \in {"s_seed", "s_inter", "s_mat"}

C6_SearchSeesWholeInsertions ==
    \A t \in Threads : ReadsDataset(t) => InSync(Deref(frame[t].ref))

(***************************************************************************)
(* C7: search with a supplied, non-empty order_by_key returns a            *)
(* permutation of the unsorted match list in ascending order of the        *)
(* documents' metadata value for the key ("" when the key is absent).      *)
(***************************************************************************)
Ascending(rs, key) ==
    \A i, j \in 1..Len(rs) :
        i < j => ~StrLess(SortKey(rs[j], key), SortKey(rs[i], key))

C7_SortedByKey ==
    (Searched /\ Truthy(call.order_by_key)) =>
        /\ error = "none"
        /\ Len(results) = Len(materialized)
        /\ DocumentsOf(results) = DocumentsOf(materialized)
        /\ Ascending(results, call.order_by_key[1])

(***************************************************************************)
(* C8: KeySortStrategy.sort is stable: two results with equal metadata     *)
(* values for the sort key keep the relative order of the input list.      *)
(***************************************************************************)
Position(rs, r) == CHOOSE i \in 1..Len(rs) : rs[i] = r

SortedByApp == Searched /\ call.impl = "app" /\ Truthy(call.order_by_key)

C8_SortStable ==
    SortedByApp =>
        /\ DocumentsOf(results) = DocumentsOf(materialized)
        /\ \A i, j \in 1..Len(materialized) :
             (/\ i < j
              /\ SortKey(materialized[i], call.order_by_key[1])
                   = SortKey(materialized[j], call.order_by_key[1]))
             => Position(results, materialized[i])
                  < Position(results, materialized[j])

C8_Witness ==
    /\ SortedByApp
    /\ Len(materialized) = 3
    /\ results # materialized
    /\ \E i, j \in 1..Len(materialized) :
         /\ i < j
         /\ SortKey(materialized[i], call.order_by_key[1])
              = SortKey(materialized[j], call.order_by_key[1])
         /\ materialized[i].document.doc_id > materialized[j].document.doc_id

(***************************************************************************)
(* C9: if a token of the query occurs in no document of the searched       *)
(* dataset, search returns the empty result, wherever the token stands in  *)
(* the query and whatever the other tokens match.                          *)
(***************************************************************************)
AbsentToken(dataset, search_patterns) ==
    \E t \in TokenSet(search_patterns) :
        \A d \in DOMAIN dataset.documents :
            t \notin TokenSet(dataset.documents[d].content)

C9_AbsentTermGivesNothing ==
    (Searched /\ AbsentToken(datasets[call.dataset_name], call.search_patterns))
        => /\ error = "none"
           /\ matching_doc_ids = {}
           /\ results = <<>>

C9_Witness ==
    /\ Searched
    /\ LET dataset == datasets[call.dataset_name]
           search_words == Split(Lower(call.search_patterns))
       IN  /\ Len(search_words) = 2
           /\ search_words[1] \notin DOMAIN dataset.inverted_index
           /\ IndexGet(dataset.inverted_index, search_words[2]) # {}
    /\ results = <<>>

(***************************************************************************)
(* C10: the id set InvertedIndex.search returns does not depend on the     *)
(* order of the query terms: every permutation of the search words gives   *)
(* the set the search obtained.                                            *)
(***************************************************************************)
Reorderings(seq) ==
    { [i \in 1..Len(seq) |-> seq[o[i]]] : o \in Orders(1..Len(seq)) }

C10_TermOrderIrrelevant ==
    Searched =>
        \A search_words \in Reorderings(Split(Lower(call.search_patterns))) :
            IndexSearch(datasets[call.dataset_name].inverted_index, search_words)
              = matching_doc_ids

C10_Witness ==
    /\ Searched
    /\ LET index == datasets[call.dataset_name].inverted_index
           search_words == Split(Lower(call.search_patterns))
       IN  /\ Len(search_words) = 2
           /\ matching_doc_ids # {}
           /\ IndexGet(index, search_words[1]) # matching_doc_ids
           /\ IndexGet(index, search_words[2]) # matching_doc_ids
           /\ IndexGet(index, search_words[1]) # IndexGet(index, search_words[2])

(***************************************************************************)
(* C11: matching ignores letter case on both sides: a document inserted    *)
(* with content c is returned by search for q whenever every token of      *)
(* lowercase(q) is a token of lowercase(c).                                *)
(* As stated this includes the queries without tokens, for which the       *)
(* search returns nothing (C11_AnyQueryMatchesIgnoringCase). Amended: for a *)
(* query with at least one token, the documents returned are exactly those *)
(* inserted with a content c such that every token of lowercase(q) is a    *)
(* token of lowercase(c).                                                  *)
(***************************************************************************)
\* The ids of the results.
ResultIds == { results[i].document.doc_id : i \in 1..Len(results) }

\* Every token of lowercase(q) is a token of lowercase(c).
CoversIgnoringCase(c, q) == TokenSet(q) \subseteq TokenSet(c)

C11_AnyQueryMatchesIgnoringCase ==
    Searched =>
        \A d \in DOMAIN datasets[call.dataset_name].documents :
            CoversIgnoringCase(originals[d], call.search_patterns)
                => d \in ResultIds

C11_MatchesIgnoringCase ==
    (Searched /\ TokenSet(call.search_patterns) # {}) =>
        /\ error = "none"
        /\ \A d \in DOMAIN datasets[call.dataset_name].documents :
               CoversIgnoringCase(originals[d], call.search_patterns)
                   <=> d \in ResultIds

C11_Witness ==
    /\ Searched
    /\ call.search_patterns # Lower(call.search_patterns)
    /\ \E d \in ResultIds : originals[d] # Lower(originals[d])
    /\ Cardinality(ResultIds) = 2
    /\ ResultIds # DOMAIN datasets[call.dataset_name].documents


(***************************************************************************)
(* C12: for every document stored by insert_document, through every caller *)
(* of it, the metadata lookup returns the stored value or "" and never     *)
(* fails, so a search sorted by a key never fails in the lookup.           *)
(***************************************************************************)
C12_LookupNeverFails ==
    (Searched /\ Truthy(call.order_by_key)) => error = "none"


\* The Dataset objects alive: the registered ones and those only threads hold.
DatasetObjects ==
    { datasets[n] : n \in DOMAIN datasets }
      \cup { orphans[i] : i \in 1..Len(orphans) }

PostedIds(dataset) ==
    UNION { dataset.inverted_index[w] : w \in DOMAIN dataset.inverted_index }

(***************************************************************************)
(* C13: a search on an existing dataset never fails with a missing         *)
(* document: every id a posting set of a dataset holds, and every id a     *)
(* search has obtained from it and has still to look up, is a key of that  *)
(* dataset's document store, also while insert_document calls are in       *)
(* progress.                                                               *)
(***************************************************************************)
C13_NoDocumentNotFound ==
    /\ \A dataset \in DatasetObjects :
          PostedIds(dataset) \subseteq DOMAIN dataset.documents
    /\ \A t \in Threads :
          frame[t].op = "search" =>
              /\ frame[t].error # "KeyError"
              /\ frame[t].ref # NoRef =>
                    frame[t].result_set \subseteq DOMAIN Deref(frame[t].ref).documents

\* A search has looked up, and returns, the document of an insert_document
\* that is still adding its words to the index.
C13_Witness ==
    \E t, u \in Threads :
        /\ frame[t].op = "search"
        /\ pc[t] = "done"
        /\ frame[t].error = "none"
        /\ pc[u] \in {"i_test", "i_new", "i_add"}
        /\ \E i \in 1..Len(frame[t].results) :
              frame[t].results[i].document.doc_id = frame[u].doc_id

\* The insert_document calls that have read the id of their document.
Inserting(t) == frame[t].op \in {"insert", "inserted"} /\ frame[t].doc_id # 0

(***************************************************************************)
(* C14: two insert_document calls that interleave statement by statement   *)
(* give their documents distinct ids, and once both have returned the      *)
(* counter has advanced by one for each.                                   *)
(***************************************************************************)
C14_DistinctIds ==
    /\ \A t, u \in Threads :
          (t # u /\ Inserting(t) /\ Inserting(u)) =>
              frame[t].doc_id # frame[u].doc_id
    /\ (\A t \in Threads : ~(frame[t].op = "insert" /\ frame[t].error = "none")) =>
          next_doc_id = inserted + 1

(***************************************************************************)
(* C15: with create_dataset calls for one name running concurrently with   *)
(* each other and with insert_document calls, a registered dataset is      *)
(* never replaced by a fresh empty one: no step takes a document of a      *)
(* completed insert_document out of the dataset registered under a name.   *)
(***************************************************************************)
C15_RegisteredNeverReplaced ==
    [][ (\A t \in Threads : frame[t].op # "insert") =>
            \A n \in DOMAIN datasets :
                /\ n \in DOMAIN datasets'
                /\ DOMAIN datasets[n].documents
                      \subseteq DOMAIN datasets'[n].documents ]_vars

\* The ids InvertedIndex.search gives for a query on a dataset.
Found(dataset, search_patterns) ==
    IndexSearch(dataset.inverted_index, Split(Lower(search_patterns)))

(***************************************************************************)
(* C16: datasets and documents are never removed or changed: no call of    *)
(* create_dataset, insert_document or search unregisters a dataset,        *)
(* removes or alters a stored document, or takes a document out of the     *)
(* result of any query, so what a search returned once it returns in every *)
(* later state, with the same content and metadata.                        *)
(***************************************************************************)
C16_NothingRemoved ==
    [][ \A n \in DOMAIN datasets :
          /\ n \in DOMAIN datasets'
          /\ \A d \in DOMAIN datasets[n].documents :
                /\ d \in DOMAIN datasets'[n].documents
                /\ datasets'[n].documents[d] = datasets[n].documents[d]
          /\ \A q \in Queries :
                Found(datasets[n], q) \subseteq Found(datasets'[n], q) ]_vars

\* A search returns the first document after two more insertions, one of
\* them into the same dataset, and a second creation.
C16_Witness ==
    /\ Searched
    /\ error = "none"
    /\ 1 \in ResultIds
    /\ inserted = MaxDocs
    /\ Cardinality(DOMAIN datasets[call.dataset_name].documents) = 2
    /\ Cardinality(DOMAIN datasets) = 2

(***************************************************************************)
(* C17: datasets are isolated: insert_document into one dataset puts the   *)
(* document into that dataset's store and leaves the store and every       *)
(* posting set of every other dataset as they were, and a search on a      *)
(* dataset never returns a document held by another dataset's store, also  *)
(* when the other dataset holds documents with the query's terms.          *)
(***************************************************************************)
C17_Isolated ==
    [][ /\ (Idle /\ call'.op = "insert" /\ error' = "none") =>
              /\ next_doc_id \in DOMAIN datasets'[call'.dataset_name].documents
              /\ \A n \in DOMAIN datasets \ {call'.dataset_name} :
                    datasets'[n] = datasets[n]
        /\ (Idle /\ call'.op = "search" /\ error' = "none") =>
              \A i \in 1..Len(results') :
                  \A n \in DOMAIN datasets \ {call'.dataset_name} :
                      results'[i].document.doc_id
                          \notin DOMAIN datasets[n].documents ]_vars

\* A search returns documents while another dataset holds a document with
\* every term of the query.
C17_Witness ==
    /\ Searched
    /\ error = "none"
    /\ ResultIds # {}
    /\ \E n \in DOMAIN datasets \ {call.dataset_name} :
          Matches(datasets[n], call.search_patterns) # {}

(***************************************************************************)
(* C18: a successful search mutates nothing: the datasets, their document  *)
(* stores, their posting sets (the first query term's among them) and the  *)
(* id counter are after the call what they were before it, with or without *)
(* an order_by_key.                                                        *)
(***************************************************************************)
C18_SearchMutatesNothing ==
    [][ (Idle /\ call'.op = "search" /\ error' = "none") =>
            /\ datasets' = datasets
            /\ next_doc_id' = next_doc_id ]_vars

\* A sorted search of several terms has returned fewer documents than the
\* first term's posting set holds.
C18_Witness ==
    /\ Searched
    /\ error = "none"
    /\ Truthy(call.order_by_key)
    /\ ResultIds # {}
    /\ ResultIds # IndexGet(datasets[call.dataset_name].inverted_index,
                            Split(Lower(call.search_patterns))[1])

(***************************************************************************)
(* C19: in every reachable state no term of any dataset's inverted index   *)
(* maps to an empty posting set, also after searches for terms that were   *)
(* never indexed.                                                          *)
(***************************************************************************)
C19_NoEmptyPostingSet ==
    \A n \in DOMAIN datasets :
        \A w \in DOMAIN datasets[n].inverted_index :
            datasets[n].inverted_index[w] # {}

\* A search for a term the index lacks has returned, on a dataset whose
\* index holds other terms.
C19_Witness ==
    /\ Searched
    /\ error = "none"
    /\ DOMAIN datasets[call.dataset_name].inverted_index # {}
    /\ \E w \in TokenSet(call.search_patterns) :
          w \notin DOMAIN datasets[call.dataset_name].inverted_index

(***************************************************************************)
(* C20: there is one engine per process: every construction of             *)
(* SearchEngine after the first returns the instance the first one made    *)
(* and does not run the initialisation again, so the datasets, their       *)
(* documents and the id counter are not reset by it.                       *)
(***************************************************************************)
C20_OneEngine ==
    [][ (Idle /\ call'.op = "construct" /\ Constructed) =>
            /\ instances' = instances
            /\ datasets' = datasets
            /\ next_doc_id' = next_doc_id ]_vars

\* The engine is constructed again when it holds two datasets and all the
\* documents.
C20_Witness ==
    /\ call.op = "construct"
    /\ instances = ("SearchEngine" :> 1)
    /\ inserted = MaxDocs
    /\ next_doc_id = MaxDocs + 1
    /\ Cardinality(DOMAIN datasets) = 2
    /\ Cardinality(StoredIds) = MaxDocs
=============================================================================
